---- MODULE Spec2Model ----
(***************************************************************************)
(* Model of the text pattern matchers of common/eda_pattern_match.cpp      *)
(* (EDA_PATTERN_MATCH_SUBSTR, _REGEX, _WILDCARD, EDA_COMBINED_MATCHER) and *)
(* of PCB_ACTIONS::TranslateLegacyId.                                      *)
(*                                                                         *)
(* A wxString is a sequence of one-character strings.  Positions are the   *)
(* 0-based indices the C++ code returns.                                   *)
(***************************************************************************)
EXTENDS Integers, Sequences, FiniteSets, TLC

\* ------------------------------------------------------------------------
\* Bounds of the model
\* ------------------------------------------------------------------------
MaxPatLen == 2
MaxTermLen == 3
MaxLow == 15
MaxUpper == 1

\* Characters the patterns are drawn from: a letter, the wildcard and regex
\* metacharacters '*' and '?', and the escape character.
PatternChars == {"a", "*", "?", "\\"}

\* Characters the searched terms are drawn from.
TermChars == {"a", "*"}

StringsUpTo(S, n) == UNION {[1..k -> S] : k \in 0..n}

\* Patterns with the regex metacharacter '.' and with an opening parenthesis
\* (which nothing closes, so the regular expression is invalid).
ExtraPatterns == {<<".">>, <<"a", ".">>, <<".", "*">>, <<"(">>, <<"(", "a">>}

Patterns == StringsUpTo(PatternChars, MaxPatLen) \cup ExtraPatterns

\* Terms with a backslash and with a dot in them.
ExtraTerms == {<<"\\", "*", "*">>, <<"\\", "a", "*">>, <<"a", ".">>, <<"*", ".", "a">>}

Terms == StringsUpTo(TermChars, MaxTermLen) \cup ExtraTerms

\* ------------------------------------------------------------------------
\* wxString
\* ------------------------------------------------------------------------
wxNOT_FOUND == -1

EDA_PATTERN_NOT_FOUND == wxNOT_FOUND

SetMin(S) == CHOOSE x \in S : \A y \in S : x <= y

\* s.Mid(i, n) == sub, with i 0-based
OccursAt(s, sub, i) ==
    /\ i + Len(sub) <= Len(s)
    /\ \A k \in 1..Len(sub) : s[i + k] = sub[k]

\* int wxString::Find( const wxString& sub ): index of the first occurrence
\* of sub in s, or wxNOT_FOUND.
wxStringFind(s, sub) ==
    LET hits == {i \in 0..Len(s) : OccursAt(s, sub, i)}
    IN  IF hits = {} THEN wxNOT_FOUND ELSE SetMin(hits)

\* ------------------------------------------------------------------------
\* wxRegEx with wxRE_ADVANCED, restricted to PatternChars.
\*
\* A compiled expression is a sequence of quantified atoms
\*   [atom |-> "any" | "lit" | "none", ch |-> character, quant |-> "one" | "star" | "opt"].
\* "none" is an atom that matches no character of the terms: a backslash
\* followed by a letter is a character-entry or class escape of the advanced
\* syntax (\a is the alert character), not the letter.
\*
\* The syntax covered is the one the patterns and their wildcard
\* translations can hold: literals, '.', the quantifiers '*' and '?' with
\* their non-greedy forms '*?' and '??', backslash escapes, and '(' without
\* its ')'.  A quantifier with no atom before it, a quantifier after a
\* quantifier, a trailing backslash and an unclosed parenthesis do not
\* compile; the empty expression compiles and matches the empty string.
\* A match is reported at its leftmost start, as wxRegEx::GetMatch does.
\* ------------------------------------------------------------------------
Quantifiers == {"*", "?"}

Alnum == {"a"}

BadRegex == [ok |-> FALSE, prog |-> <<>>]

\* The atom starting at e[i]: [ok, item, next], next the index after it.
ParseAtom(e, i) ==
    LET c == e[i]
    IN  CASE c \in Quantifiers -> [ok |-> FALSE, atom |-> "none", ch |-> c, next |-> i]
          [] c = "("           -> [ok |-> FALSE, atom |-> "none", ch |-> c, next |-> i]
          [] c = "\\"          ->
                IF i = Len(e)
                THEN [ok |-> FALSE, atom |-> "none", ch |-> c, next |-> i]
                ELSE IF e[i + 1] \in Alnum
                     THEN [ok |-> TRUE, atom |-> "none", ch |-> e[i + 1], next |-> i + 2]
                     ELSE [ok |-> TRUE, atom |-> "lit", ch |-> e[i + 1], next |-> i + 2]
          [] c = "."           -> [ok |-> TRUE, atom |-> "any", ch |-> c, next |-> i + 1]
          [] OTHER             -> [ok |-> TRUE, atom |-> "lit", ch |-> c, next |-> i + 1]

\* The quantifier after an atom, at e[j]: '*' or '?', each optionally
\* followed by '?' (the non-greedy form).  [quant, next].
ParseQuant(e, j) ==
    IF j <= Len(e) /\ e[j] \in Quantifiers
    THEN LET q == IF e[j] = "*" THEN "star" ELSE "opt"
         IN  IF j + 1 <= Len(e) /\ e[j + 1] = "?"
             THEN [quant |-> q, next |-> j + 2]
             ELSE [quant |-> q, next |-> j + 1]
    ELSE [quant |-> "one", next |-> j]

RECURSIVE ParseFrom(_, _)
ParseFrom(e, i) ==
    IF i > Len(e)
    THEN [ok |-> TRUE, prog |-> <<>>]
    ELSE LET a == ParseAtom(e, i)
         IN  IF ~a.ok
             THEN BadRegex
             ELSE LET q == ParseQuant(e, a.next)
                      rest == ParseFrom(e, q.next)
                  IN  IF ~rest.ok
                      THEN BadRegex
                      ELSE [ok |-> TRUE,
                            prog |-> <<[atom |-> a.atom, ch |-> a.ch, quant |-> q.quant]>>
                                      \o rest.prog]

\* bool wxRegEx::Compile( expr, wxRE_ADVANCED ): the new state of the
\* wxRegEx object; a failed compile leaves it invalid.
wxRegExCompile(expr) == ParseFrom(expr, 1)

AtomMatches(item, c) ==
    CASE item.atom = "any" -> TRUE
      [] item.atom = "lit" -> c = item.ch
      [] OTHER             -> FALSE

\* The positions a quantified atom can end at, started from the positions S.
Step(item, t, S) ==
    LET one == {i + 1 : i \in {j \in S : j < Len(t) /\ AtomMatches(item, t[j + 1])}}
    IN  CASE item.quant = "one"  -> one
          [] item.quant = "opt"  -> S \cup one
          [] OTHER               ->
                {j \in 0..Len(t) :
                    \E i \in S : i <= j /\ \A m \in (i + 1)..j : AtomMatches(item, t[m])}

RECURSIVE Ends(_, _, _, _)
Ends(prog, k, t, S) ==
    IF k > Len(prog) THEN S ELSE Ends(prog, k + 1, t, Step(prog[k], t, S))

\* The start offsets at which the compiled expression matches in t.
MatchStarts(prog, t) == {i \in 0..Len(t) : Ends(prog, 1, t, {i}) # {}}

\* bool wxRegEx::Matches( text )
wxRegExMatches(prog, t) == MatchStarts(prog, t) # {}

\* wxRegEx::GetMatch( &start, &len, 0 ): the start of the leftmost match
wxRegExGetMatchStart(prog, t) == SetMin(MatchStarts(prog, t))

\* ------------------------------------------------------------------------
\* The matcher classes.  A matcher object is a record
\*   [kind, m_pattern, m_wildcard_pattern, m_regex]
\* where m_regex is the state of the wxRegEx member ([ok, prog]); the
\* fields a class does not have keep their default value.
\* ------------------------------------------------------------------------
INT_MAX == 2147483647

MatcherKinds == {"REGEX", "WILDCARD", "SUBSTR"}

\* A default-constructed matcher: empty strings, no compiled expression.
NewMatcher(kind) ==
    [kind |-> kind, m_pattern |-> <<>>, m_wildcard_pattern |-> <<>>, m_regex |-> BadRegex]

\* SetPattern of the substring matcher refusing the empty pattern.
SubstrSetPattern_RejectsEmpty(m, aPattern) ==
    [obj |-> [m EXCEPT !.m_pattern = aPattern], ret |-> aPattern # <<>>]

\* EDA_PATTERN_MATCH_SUBSTR::SetPattern: [obj, ret]
SubstrSetPattern(m, aPattern) ==
    [obj |-> [m EXCEPT !.m_pattern = aPattern], ret |-> TRUE]

\* Find of the substring matcher taking a match at index 0 for no match.
SubstrFind_MissesAtZero(m, aCandidate) ==
    LET loc == wxStringFind(aCandidate, m.m_pattern)
    IN  IF loc > 0 THEN loc ELSE EDA_PATTERN_NOT_FOUND

\* EDA_PATTERN_MATCH_SUBSTR::Find
SubstrFind(m, aCandidate) ==
    LET loc == wxStringFind(aCandidate, m.m_pattern)
    IN  IF loc = wxNOT_FOUND THEN EDA_PATTERN_NOT_FOUND ELSE loc

\* SetPattern of the regex matcher with a failed Compile leaving the
\* expression compiled before in place.
RegexSetPattern_KeepsCompiled(m, aPattern) ==
    LET compiled == wxRegExCompile(aPattern)
    IN  [obj |-> [m EXCEPT !.m_pattern = aPattern,
                           !.m_regex = IF compiled.ok THEN compiled ELSE m.m_regex],
         ret |-> compiled.ok]

\* EDA_PATTERN_MATCH_REGEX::SetPattern: [obj, ret]
RegexSetPattern(m, aPattern) ==
    LET compiled == wxRegExCompile(aPattern)
    IN  [obj |-> [m EXCEPT !.m_pattern = aPattern, !.m_regex = compiled],
         ret |-> compiled.ok]

\* Find of the regex matcher with no fallback: an invalid expression finds
\* nothing.
RegexFind_NoFallback(m, aCandidate) ==
    IF m.m_regex.ok /\ wxRegExMatches(m.m_regex.prog, aCandidate)
    THEN wxRegExGetMatchStart(m.m_regex.prog, aCandidate)
    ELSE EDA_PATTERN_NOT_FOUND

\* A size_t value is a record [upper, bit31, low]: low holds its bits 0 to
\* 30, bit31 its bit 31 and upper the bits above.  SizeT(n) is the size_t
\* with the value n, for n in 0..INT_MAX.
SizeT(n) == [upper |-> 0, bit31 |-> 0, low |-> n]

\* start > INT_MAX, for a size_t start
ExceedsIntMax(start) == start.upper > 0 \/ start.bit31 = 1

\* The conversion of a size_t to the int the function returns: its low 32
\* bits, read as a two's complement number.
ToInt(start) == IF start.bit31 = 1 THEN start.low - INT_MAX - 1 ELSE start.low

\* The return statement with the clamp left out: return start;
MatchStartToInt_Unclamped(start) == ToInt(start)

\* return ( start > INT_MAX ) ? INT_MAX : start;
MatchStartToInt(start) == IF ExceedsIntMax(start) THEN INT_MAX ELSE ToInt(start)

\* EDA_PATTERN_MATCH_REGEX::Find
RegexFind(m, aCandidate) ==
    IF m.m_regex.ok
    THEN IF wxRegExMatches(m.m_regex.prog, aCandidate)
         THEN LET start == SizeT(wxRegExGetMatchStart(m.m_regex.prog, aCandidate))
              IN  MatchStartToInt(start)
         ELSE EDA_PATTERN_NOT_FOUND
    ELSE LET loc == wxStringFind(aCandidate, m.m_pattern)
         IN  IF loc = wxNOT_FOUND THEN EDA_PATTERN_NOT_FOUND ELSE loc

\* const wxString to_replace = wxT( ".*+?^${}()|[]/\\" )
to_replace == {".", "*", "+", "?", "^", "$", "{", "}", "(", ")", "|", "[", "]", "/", "\\"}

\* WildcardChar that escapes nothing: every character but '?' and '*' is
\* copied unchanged.
WildcardChar_NoEscape(c) ==
    IF c = "?"
    THEN <<".">>
    ELSE IF c = "*"
         THEN <<".", "*">>
         ELSE <<c>>

\* The body of the loop of EDA_PATTERN_MATCH_WILDCARD::SetPattern: what one
\* character of the wildcard pattern appends to the regular expression.
WildcardChar(c) ==
    IF c = "?"
    THEN <<".">>
    ELSE IF c = "*"
         THEN <<".", "*">>
         ELSE IF c \in to_replace
              THEN <<"\\", c>>
              ELSE <<c>>

\* The loop of EDA_PATTERN_MATCH_WILDCARD::SetPattern from the it-th
\* character on, regex being the expression built so far.
RECURSIVE WildcardLoop(_, _, _)
WildcardLoop(aPattern, it, regex) ==
    IF it > Len(aPattern)
    THEN regex
    ELSE WildcardLoop(aPattern, it + 1, regex \o WildcardChar(aPattern[it]))

\* EDA_PATTERN_MATCH_WILDCARD::SetPattern: [obj, ret]
WildcardSetPattern(m, aPattern) ==
    LET regex == WildcardLoop(aPattern, 1, <<>>)
        base == RegexSetPattern([m EXCEPT !.m_wildcard_pattern = aPattern], regex)
    IN  base

\* EDA_PATTERN_MATCH_WILDCARD::Find
WildcardFind(m, aCandidate) == RegexFind(m, aCandidate)

\* EDA_PATTERN_MATCH_SUBSTR::GetPattern
SubstrGetPattern(m) == m.m_pattern

\* EDA_PATTERN_MATCH_REGEX::GetPattern
RegexGetPattern(m) == m.m_pattern

\* GetPattern of the wildcard matcher returning the inherited m_pattern.
WildcardGetPattern_Inherited(m) == m.m_pattern

\* EDA_PATTERN_MATCH_WILDCARD::GetPattern
WildcardGetPattern(m) == m.m_wildcard_pattern

\* Virtual dispatch of EDA_PATTERN_MATCH::SetPattern, Find, GetPattern
SetPattern(m, aPattern) ==
    CASE m.kind = "REGEX"    -> RegexSetPattern(m, aPattern)
      [] m.kind = "WILDCARD" -> WildcardSetPattern(m, aPattern)
      [] OTHER               -> SubstrSetPattern(m, aPattern)

Find(m, aCandidate) ==
    CASE m.kind = "REGEX"    -> RegexFind(m, aCandidate)
      [] m.kind = "WILDCARD" -> WildcardFind(m, aCandidate)
      [] OTHER               -> SubstrFind(m, aCandidate)

GetPattern(m) ==
    CASE m.kind = "REGEX"    -> RegexGetPattern(m)
      [] m.kind = "WILDCARD" -> WildcardGetPattern(m)
      [] OTHER               -> SubstrGetPattern(m)

\* ------------------------------------------------------------------------
\* EDA_COMBINED_MATCHER: [kind |-> "COMBINED", m_pattern, m_matchers]
\* ------------------------------------------------------------------------
\* AddMatcher that keeps the matcher whatever SetPattern returns.
AddMatcher_Always(m_matchers, aPattern, aMatcher) ==
    Append(m_matchers, SetPattern(aMatcher, aPattern).obj)

\* EDA_COMBINED_MATCHER::AddMatcher: the new m_matchers
AddMatcher(m_matchers, aPattern, aMatcher) ==
    LET r == SetPattern(aMatcher, aPattern)
    IN  IF r.ret THEN Append(m_matchers, r.obj) ELSE m_matchers

\* EDA_COMBINED_MATCHER::EDA_COMBINED_MATCHER( aPattern )
CombinedMatcher(aPattern) ==
    LET m1 == AddMatcher(<<>>, aPattern, NewMatcher("REGEX"))
        m2 == AddMatcher(m1, aPattern, NewMatcher("WILDCARD"))
        m3 == AddMatcher(m2, aPattern, NewMatcher("SUBSTR"))
    IN  [kind |-> "COMBINED", m_pattern |-> aPattern, m_matchers |-> m3]

\* FindLoopBody with the position never lowered once one is set.
FindLoopBody_KeepsFirst(matcher, aTerm, out) ==
    LET local_find == Find(matcher, aTerm)
    IN  IF local_find # EDA_PATTERN_NOT_FOUND
        THEN [aMatchersTriggered |-> out.aMatchersTriggered + 1,
              aPosition |->
                  IF out.aPosition = EDA_PATTERN_NOT_FOUND
                  THEN local_find
                  ELSE out.aPosition]
        ELSE out

\* FindLoopBody with the comparison reversed: the greatest position wins.
FindLoopBody_Greatest(matcher, aTerm, out) ==
    LET local_find == Find(matcher, aTerm)
    IN  IF local_find # EDA_PATTERN_NOT_FOUND
        THEN [aMatchersTriggered |-> out.aMatchersTriggered + 1,
              aPosition |->
                  IF local_find > out.aPosition \/ out.aPosition = EDA_PATTERN_NOT_FOUND
                  THEN local_find
                  ELSE out.aPosition]
        ELSE out

\* FindLoopBody with the count incremented only when the position is lowered.
FindLoopBody_CountsImprovements(matcher, aTerm, out) ==
    LET local_find == Find(matcher, aTerm)
    IN  IF local_find # EDA_PATTERN_NOT_FOUND
           /\ (local_find < out.aPosition \/ out.aPosition = EDA_PATTERN_NOT_FOUND)
        THEN [aMatchersTriggered |-> out.aMatchersTriggered + 1, aPosition |-> local_find]
        ELSE out

\* FindLoopBody without the test for the "not found" sentinel.
FindLoopBody_NoSentinelTest(matcher, aTerm, out) ==
    LET local_find == Find(matcher, aTerm)
    IN  IF local_find # EDA_PATTERN_NOT_FOUND
        THEN [aMatchersTriggered |-> out.aMatchersTriggered + 1,
              aPosition |->
                  IF local_find < out.aPosition THEN local_find ELSE out.aPosition]
        ELSE out

\* The body of the for loop of EDA_COMBINED_MATCHER::Find for one matcher;
\* out is [aMatchersTriggered, aPosition] as the loop has left them so far.
FindLoopBody(matcher, aTerm, out) ==
    LET local_find == Find(matcher, aTerm)
    IN  IF local_find # EDA_PATTERN_NOT_FOUND
        THEN [aMatchersTriggered |-> out.aMatchersTriggered + 1,
              aPosition |->
                  IF local_find < out.aPosition \/ out.aPosition = EDA_PATTERN_NOT_FOUND
                  THEN local_find
                  ELSE out.aPosition]
        ELSE out

\* The for loop of EDA_COMBINED_MATCHER::Find from the k-th matcher on.
RECURSIVE CombinedFindLoop(_, _, _, _)
CombinedFindLoop(m_matchers, k, aTerm, out) ==
    IF k > Len(m_matchers)
    THEN out
    ELSE CombinedFindLoop(m_matchers, k + 1, aTerm, FindLoopBody(m_matchers[k], aTerm, out))

\* EDA_COMBINED_MATCHER::Find without its two opening assignments: the loop
\* starts from the values the caller's variables hold.
CombinedFind_NoReset(c, aTerm, inTriggered, inPosition) ==
    LET out == CombinedFindLoop(c.m_matchers, 1, aTerm,
                   [aMatchersTriggered |-> inTriggered, aPosition |-> inPosition])
    IN  [ret |-> out.aPosition # EDA_PATTERN_NOT_FOUND,
         aMatchersTriggered |-> out.aMatchersTriggered,
         aPosition |-> out.aPosition]

\* EDA_COMBINED_MATCHER::Find, inTriggered and inPosition being the values
\* the referenced variables hold on entry: [ret, aMatchersTriggered, aPosition]
CombinedFind(c, aTerm, inTriggered, inPosition) ==
    LET entered == [aMatchersTriggered |-> inTriggered, aPosition |-> inPosition]
        reset == [entered EXCEPT !.aPosition = EDA_PATTERN_NOT_FOUND,
                                 !.aMatchersTriggered = 0]
        out == CombinedFindLoop(c.m_matchers, 1, aTerm, reset)
    IN  [ret |-> out.aPosition # EDA_PATTERN_NOT_FOUND,
         aMatchersTriggered |-> out.aMatchersTriggered,
         aPosition |-> out.aPosition]

\* EDA_COMBINED_MATCHER::GetPattern
CombinedGetPattern(c) == c.m_pattern

\* ------------------------------------------------------------------------
\* PCB_ACTIONS: the static TOOL_ACTION members, each with the name, scope
\* and flags its constructor is given.
\* ------------------------------------------------------------------------
PCB_ACTIONS ==
    [selectionActivate |->
        [m_name |-> "pcbnew.InteractiveSelection", m_scope |-> "AS_GLOBAL", m_flags |-> "AF_ACTIVATE"],
     selectionCursor |->
        [m_name |-> "pcbnew.InteractiveSelection.Cursor", m_scope |-> "AS_GLOBAL", m_flags |-> "AF_NONE"],
     selectItem |->
        [m_name |-> "pcbnew.InteractiveSelection.SelectItem", m_scope |-> "AS_GLOBAL", m_flags |-> "AF_NONE"],
     unselectItem |->
        [m_name |-> "pcbnew.InteractiveSelection.UnselectItem", m_scope |-> "AS_GLOBAL", m_flags |-> "AF_NONE"],
     selectionClear |->
        [m_name |-> "pcbnew.InteractiveSelection.Clear", m_scope |-> "AS_GLOBAL", m_flags |-> "AF_NONE"],
     selectConnection |->
        [m_name |-> "pcbnew.InteractiveSelection.SelectConnection", m_scope |-> "AS_GLOBAL", m_flags |-> "AF_NONE"],
     selectCopper |->
        [m_name |-> "pcbnew.InteractiveSelection.SelectCopper", m_scope |-> "AS_GLOBAL", m_flags |-> "AF_NONE"],
     selectNet |->
        [m_name |-> "pcbnew.InteractiveSelection.SelectNet", m_scope |-> "AS_GLOBAL", m_flags |-> "AF_NONE"],
     selectSameSheet |->
        [m_name |-> "pcbnew.InteractiveSelection.SelectSameSheet", m_scope |-> "AS_GLOBAL", m_flags |-> "AF_NONE"],
     find |->
        [m_name |-> "pcbnew.InteractiveSelection.Find", m_scope |-> "AS_GLOBAL", m_flags |-> "AF_NONE"],
     findMove |->
        [m_name |-> "pcbnew.InteractiveSelection.FindMove", m_scope |-> "AS_GLOBAL", m_flags |-> "AF_NONE"],
     editFootprintInFpEditor |->
        [m_name |-> "pcbnew.InteractiveEdit.editFootprintInFpEditor", m_scope |-> "AS_GLOBAL", m_flags |-> "AF_NONE"],
     copyPadToSettings |->
        [m_name |-> "pcbnew.InteractiveEdit.copyPadToSettings", m_scope |-> "AS_GLOBAL", m_flags |-> "AF_NONE"],
     copySettingsToPads |->
        [m_name |-> "pcbnew.InteractiveEdit.copySettingsToPads", m_scope |-> "AS_GLOBAL", m_flags |-> "AF_NONE"],
     globalEditPads |->
        [m_name |-> "pcbnew.InteractiveEdit.globalPadEdit", m_scope |-> "AS_GLOBAL", m_flags |-> "AF_NONE"],
     editActivate |->
        [m_name |-> "pcbnew.InteractiveEdit", m_scope |-> "AS_GLOBAL", m_flags |-> "AF_ACTIVATE"],
     duplicate |->
        [m_name |-> "pcbnew.InteractiveEdit.duplicate", m_scope |-> "AS_GLOBAL", m_flags |-> "AF_NONE"],
     duplicateIncrement |->
        [m_name |-> "pcbnew.InteractiveEdit.duplicateIncrementPads", m_scope |-> "AS_GLOBAL", m_flags |-> "AF_NONE"],
     moveExact |->
        [m_name |-> "pcbnew.InteractiveEdit.moveExact", m_scope |-> "AS_GLOBAL", m_flags |-> "AF_NONE"],
     createArray |->
        [m_name |-> "pcbnew.InteractiveEdit.createArray", m_scope |-> "AS_GLOBAL", m_flags |-> "AF_ACTIVATE"],
     rotateCw |->
        [m_name |-> "pcbnew.InteractiveEdit.rotateCw", m_scope |-> "AS_GLOBAL", m_flags |-> "AF_NONE"],
     rotateCcw |->
        [m_name |-> "pcbnew.InteractiveEdit.rotateCcw", m_scope |-> "AS_GLOBAL", m_flags |-> "AF_NONE"],
     flip |->
        [m_name |-> "pcbnew.InteractiveEdit.flip", m_scope |-> "AS_GLOBAL", m_flags |-> "AF_NONE"],
     mirror |->
        [m_name |-> "pcbnew.InteractiveEdit.mirror", m_scope |-> "AS_GLOBAL", m_flags |-> "AF_NONE"],
     remove |->
        [m_name |-> "pcbnew.InteractiveEdit.remove", m_scope |-> "AS_GLOBAL", m_flags |-> "AF_NONE"],
     removeAlt |->
        [m_name |-> "pcbnew.InteractiveEdit.removeAlt", m_scope |-> "AS_GLOBAL", m_flags |-> "AF_NONE"],
     exchangeFootprints |->
        [m_name |-> "pcbnew.InteractiveEdit.ExchangeFootprints", m_scope |-> "AS_GLOBAL", m_flags |-> "AF_NONE"],
     properties |->
        [m_name |-> "pcbnew.InteractiveEdit.properties", m_scope |-> "AS_GLOBAL", m_flags |-> "AF_NONE"],
     editModifiedSelection |->
        [m_name |-> "pcbnew.InteractiveEdit.ModifiedSelection", m_scope |-> "AS_GLOBAL", m_flags |-> "AF_NONE"],
     drawLine |->
        [m_name |-> "pcbnew.InteractiveDrawing.line", m_scope |-> "AS_GLOBAL", m_flags |-> "AF_ACTIVATE"],
     drawCircle |->
        [m_name |-> "pcbnew.InteractiveDrawing.circle", m_scope |-> "AS_GLOBAL", m_flags |-> "AF_ACTIVATE"],
     drawArc |->
        [m_name |-> "pcbnew.InteractiveDrawing.arc", m_scope |-> "AS_GLOBAL", m_flags |-> "AF_ACTIVATE"],
     placeText |->
        [m_name |-> "pcbnew.InteractiveDrawing.text", m_scope |-> "AS_GLOBAL", m_flags |-> "AF_ACTIVATE"],
     drawDimension |->
        [m_name |-> "pcbnew.InteractiveDrawing.dimension", m_scope |-> "AS_GLOBAL", m_flags |-> "AF_ACTIVATE"],
     drawZone |->
        [m_name |-> "pcbnew.InteractiveDrawing.zone", m_scope |-> "AS_GLOBAL", m_flags |-> "AF_ACTIVATE"],
     drawKeepout |->
        [m_name |-> "pcbnew.InteractiveDrawing.keepout", m_scope |-> "AS_GLOBAL", m_flags |-> "AF_ACTIVATE"],
     drawZoneCutout |->
        [m_name |-> "pcbnew.InteractiveDrawing.zoneCutout", m_scope |-> "AS_GLOBAL", m_flags |-> "AF_ACTIVATE"],
     drawSimilarZone |->
        [m_name |-> "pcbnew.InteractiveDrawing.similarZone", m_scope |-> "AS_GLOBAL", m_flags |-> "AF_ACTIVATE"],
     placeDXF |->
        [m_name |-> "pcbnew.InteractiveDrawing.placeDXF", m_scope |-> "AS_GLOBAL", m_flags |-> "AF_ACTIVATE"],
     setAnchor |->
        [m_name |-> "pcbnew.InteractiveDrawing.setAnchor", m_scope |-> "AS_GLOBAL", m_flags |-> "AF_ACTIVATE"],
     incWidth |->
        [m_name |-> "pcbnew.InteractiveDrawing.incWidth", m_scope |-> "AS_CONTEXT", m_flags |-> "AF_NONE"],
     decWidth |->
        [m_name |-> "pcbnew.InteractiveDrawing.decWidth", m_scope |-> "AS_CONTEXT", m_flags |-> "AF_NONE"],
     arcPosture |->
        [m_name |-> "pcbnew.InteractiveDrawing.arcPosture", m_scope |-> "AS_CONTEXT", m_flags |-> "AF_NONE"],
     zoomIn |->
        [m_name |-> "common.Control.zoomIn", m_scope |-> "AS_GLOBAL", m_flags |-> "AF_NONE"],
     zoomOut |->
        [m_name |-> "common.Control.zoomOut", m_scope |-> "AS_GLOBAL", m_flags |-> "AF_NONE"],
     zoomInCenter |->
        [m_name |-> "common.Control.zoomInCenter", m_scope |-> "AS_GLOBAL", m_flags |-> "AF_NONE"],
     zoomOutCenter |->
        [m_name |-> "common.Control.zoomOutCenter", m_scope |-> "AS_GLOBAL", m_flags |-> "AF_NONE"],
     zoomCenter |->
        [m_name |-> "common.Control.zoomCenter", m_scope |-> "AS_GLOBAL", m_flags |-> "AF_NONE"],
     zoomFitScreen |->
        [m_name |-> "common.Control.zoomFitScreen", m_scope |-> "AS_GLOBAL", m_flags |-> "AF_NONE"],
     zoomPreset |->
        [m_name |-> "common.Control.zoomPreset", m_scope |-> "AS_GLOBAL", m_flags |-> "AF_NONE"],
     trackDisplayMode |->
        [m_name |-> "pcbnew.Control.trackDisplayMode", m_scope |-> "AS_GLOBAL", m_flags |-> "AF_NONE"],
     padDisplayMode |->
        [m_name |-> "pcbnew.Control.padDisplayMode", m_scope |-> "AS_GLOBAL", m_flags |-> "AF_NONE"],
     viaDisplayMode |->
        [m_name |-> "pcbnew.Control.viaDisplayMode", m_scope |-> "AS_GLOBAL", m_flags |-> "AF_NONE"],
     zoneDisplayEnable |->
        [m_name |-> "pcbnew.Control.zoneDisplayEnable", m_scope |-> "AS_GLOBAL", m_flags |-> "AF_NONE"],
     zoneDisplayDisable |->
        [m_name |-> "pcbnew.Control.zoneDisplayDisable", m_scope |-> "AS_GLOBAL", m_flags |-> "AF_NONE"],
     zoneDisplayOutlines |->
        [m_name |-> "pcbnew.Control.zoneDisplayOutlines", m_scope |-> "AS_GLOBAL", m_flags |-> "AF_NONE"],
     highContrastMode |->
        [m_name |-> "pcbnew.Control.highContrastMode", m_scope |-> "AS_GLOBAL", m_flags |-> "AF_NONE"],
     highContrastInc |->
        [m_name |-> "pcbnew.Control.highContrastInc", m_scope |-> "AS_GLOBAL", m_flags |-> "AF_NONE"],
     highContrastDec |->
        [m_name |-> "pcbnew.Control.highContrastDec", m_scope |-> "AS_GLOBAL", m_flags |-> "AF_NONE"],
     layerTop |->
        [m_name |-> "pcbnew.Control.layerTop", m_scope |-> "AS_GLOBAL", m_flags |-> "AF_NONE"],
     layerInner1 |->
        [m_name |-> "pcbnew.Control.layerInner1", m_scope |-> "AS_GLOBAL", m_flags |-> "AF_NONE"],
     layerInner2 |->
        [m_name |-> "pcbnew.Control.layerInner2", m_scope |-> "AS_GLOBAL", m_flags |-> "AF_NONE"],
     layerInner3 |->
        [m_name |-> "pcbnew.Control.layerInner3", m_scope |-> "AS_GLOBAL", m_flags |-> "AF_NONE"],
     layerInner4 |->
        [m_name |-> "pcbnew.Control.layerInner4", m_scope |-> "AS_GLOBAL", m_flags |-> "AF_NONE"],
     layerInner5 |->
        [m_name |-> "pcbnew.Control.layerInner5", m_scope |-> "AS_GLOBAL", m_flags |-> "AF_NONE"],
     layerInner6 |->
        [m_name |-> "pcbnew.Control.layerInner6", m_scope |-> "AS_GLOBAL", m_flags |-> "AF_NONE"],
     layerBottom |->
        [m_name |-> "pcbnew.Control.layerBottom", m_scope |-> "AS_GLOBAL", m_flags |-> "AF_NONE"],
     layerNext |->
        [m_name |-> "pcbnew.Control.layerNext", m_scope |-> "AS_GLOBAL", m_flags |-> "AF_NONE"],
     layerPrev |->
        [m_name |-> "pcbnew.Control.layerPrev", m_scope |-> "AS_GLOBAL", m_flags |-> "AF_NONE"],
     layerToggle |->
        [m_name |-> "pcbnew.Control.layerToggle", m_scope |-> "AS_GLOBAL", m_flags |-> "AF_NONE"],
     layerAlphaInc |->
        [m_name |-> "pcbnew.Control.layerAlphaInc", m_scope |-> "AS_GLOBAL", m_flags |-> "AF_NONE"],
     layerAlphaDec |->
        [m_name |-> "pcbnew.Control.layerAlphaDec", m_scope |-> "AS_GLOBAL", m_flags |-> "AF_NONE"],
     layerChanged |->
        [m_name |-> "pcbnew.Control.layerChanged", m_scope |-> "AS_GLOBAL", m_flags |-> "AF_NOTIFY"],
     gridFast1 |->
        [m_name |-> "common.Control.gridFast1", m_scope |-> "AS_GLOBAL", m_flags |-> "AF_NONE"],
     gridFast2 |->
        [m_name |-> "common.Control.gridFast2", m_scope |-> "AS_GLOBAL", m_flags |-> "AF_NONE"],
     gridNext |->
        [m_name |-> "common.Control.gridNext", m_scope |-> "AS_GLOBAL", m_flags |-> "AF_NONE"],
     gridPrev |->
        [m_name |-> "common.Control.gridPrev", m_scope |-> "AS_GLOBAL", m_flags |-> "AF_NONE"],
     gridSetOrigin |->
        [m_name |-> "common.Control.gridSetOrigin", m_scope |-> "AS_GLOBAL", m_flags |-> "AF_NONE"],
     gridResetOrigin |->
        [m_name |-> "common.Control.gridResetOrigin", m_scope |-> "AS_GLOBAL", m_flags |-> "AF_NONE"],
     gridPreset |->
        [m_name |-> "common.Control.gridPreset", m_scope |-> "AS_GLOBAL", m_flags |-> "AF_NONE"],
     trackWidthInc |->
        [m_name |-> "pcbnew.EditorControl.trackWidthInc", m_scope |-> "AS_GLOBAL", m_flags |-> "AF_NONE"],
     trackWidthDec |->
        [m_name |-> "pcbnew.EditorControl.trackWidthDec", m_scope |-> "AS_GLOBAL", m_flags |-> "AF_NONE"],
     viaSizeInc |->
        [m_name |-> "pcbnew.EditorControl.viaSizeInc", m_scope |-> "AS_GLOBAL", m_flags |-> "AF_NONE"],
     viaSizeDec |->
        [m_name |-> "pcbnew.EditorControl.viaSizeDec", m_scope |-> "AS_GLOBAL", m_flags |-> "AF_NONE"],
     trackViaSizeChanged |->
        [m_name |-> "pcbnew.EditorControl.trackViaSizeChanged", m_scope |-> "AS_GLOBAL", m_flags |-> "AF_NOTIFY"],
     zoneFill |->
        [m_name |-> "pcbnew.EditorControl.zoneFill", m_scope |-> "AS_GLOBAL", m_flags |-> "AF_NONE"],
     zoneFillAll |->
        [m_name |-> "pcbnew.EditorControl.zoneFillAll", m_scope |-> "AS_GLOBAL", m_flags |-> "AF_NONE"],
     zoneUnfill |->
        [m_name |-> "pcbnew.EditorControl.zoneUnfill", m_scope |-> "AS_GLOBAL", m_flags |-> "AF_NONE"],
     zoneUnfillAll |->
        [m_name |-> "pcbnew.EditorControl.zoneUnfillAll", m_scope |-> "AS_GLOBAL", m_flags |-> "AF_NONE"],
     zoneMerge |->
        [m_name |-> "pcbnew.EditorControl.zoneMerge", m_scope |-> "AS_GLOBAL", m_flags |-> "AF_NONE"],
     zoneDuplicate |->
        [m_name |-> "pcbnew.EditorControl.zoneDuplicate", m_scope |-> "AS_GLOBAL", m_flags |-> "AF_NONE"],
     placeTarget |->
        [m_name |-> "pcbnew.EditorControl.placeTarget", m_scope |-> "AS_GLOBAL", m_flags |-> "AF_ACTIVATE"],
     placeModule |->
        [m_name |-> "pcbnew.EditorControl.placeModule", m_scope |-> "AS_GLOBAL", m_flags |-> "AF_ACTIVATE"],
     drillOrigin |->
        [m_name |-> "pcbnew.EditorControl.drillOrigin", m_scope |-> "AS_GLOBAL", m_flags |-> "AF_NONE"],
     crossProbeSchToPcb |->
        [m_name |-> "pcbnew.EditorControl.crossProbSchToPcb", m_scope |-> "AS_GLOBAL", m_flags |-> "AF_NONE"],
     toggleLock |->
        [m_name |-> "pcbnew.EditorControl.toggleLock", m_scope |-> "AS_GLOBAL", m_flags |-> "AF_NONE"],
     lock |->
        [m_name |-> "pcbnew.EditorControl.lock", m_scope |-> "AS_GLOBAL", m_flags |-> "AF_NONE"],
     unlock |->
        [m_name |-> "pcbnew.EditorControl.unlock", m_scope |-> "AS_GLOBAL", m_flags |-> "AF_NONE"],
     appendBoard |->
        [m_name |-> "pcbnew.EditorControl.appendBoard", m_scope |-> "AS_GLOBAL", m_flags |-> "AF_NONE"],
     highlightNet |->
        [m_name |-> "pcbnew.EditorControl.highlightNet", m_scope |-> "AS_GLOBAL", m_flags |-> "AF_NONE"],
     highlightNetCursor |->
        [m_name |-> "pcbnew.EditorControl.highlightNetCursor", m_scope |-> "AS_GLOBAL", m_flags |-> "AF_NONE"],
     placePad |->
        [m_name |-> "pcbnew.ModuleEditor.placePad", m_scope |-> "AS_GLOBAL", m_flags |-> "AF_ACTIVATE"],
     enumeratePads |->
        [m_name |-> "pcbnew.ModuleEditor.enumeratePads", m_scope |-> "AS_GLOBAL", m_flags |-> "AF_ACTIVATE"],
     copyItems |->
        [m_name |-> "pcbnew.ModuleEditor.copyItems", m_scope |-> "AS_GLOBAL", m_flags |-> "AF_ACTIVATE"],
     pasteItems |->
        [m_name |-> "pcbnew.ModuleEditor.pasteItems", m_scope |-> "AS_GLOBAL", m_flags |-> "AF_ACTIVATE"],
     moduleEdgeOutlines |->
        [m_name |-> "pcbnew.ModuleEditor.graphicOutlines", m_scope |-> "AS_GLOBAL", m_flags |-> "AF_NONE"],
     moduleTextOutlines |->
        [m_name |-> "pcbnew.ModuleEditor.textOutlines", m_scope |-> "AS_GLOBAL", m_flags |-> "AF_NONE"],
     copyPadSettings |->
        [m_name |-> "pcbnew.PadTool.CopyPadSettings", m_scope |-> "AS_GLOBAL", m_flags |-> "AF_NONE"],
     applyPadSettings |->
        [m_name |-> "pcbnew.PadTool.ApplyPadSettings", m_scope |-> "AS_GLOBAL", m_flags |-> "AF_NONE"],
     pushPadSettings |->
        [m_name |-> "pcbnew.PadTool.PushPadSettings", m_scope |-> "AS_GLOBAL", m_flags |-> "AF_NONE"],
     cursorUp |->
        [m_name |-> "pcbnew.Control.cursorUp", m_scope |-> "AS_GLOBAL", m_flags |-> "AF_NONE"],
     cursorDown |->
        [m_name |-> "pcbnew.Control.cursorDown", m_scope |-> "AS_GLOBAL", m_flags |-> "AF_NONE"],
     cursorLeft |->
        [m_name |-> "pcbnew.Control.cursorLeft", m_scope |-> "AS_GLOBAL", m_flags |-> "AF_NONE"],
     cursorRight |->
        [m_name |-> "pcbnew.Control.cursorRight", m_scope |-> "AS_GLOBAL", m_flags |-> "AF_NONE"],
     cursorUpFast |->
        [m_name |-> "pcbnew.Control.cursorUpFast", m_scope |-> "AS_GLOBAL", m_flags |-> "AF_NONE"],
     cursorDownFast |->
        [m_name |-> "pcbnew.Control.cursorDownFast", m_scope |-> "AS_GLOBAL", m_flags |-> "AF_NONE"],
     cursorLeftFast |->
        [m_name |-> "pcbnew.Control.cursorLeftFast", m_scope |-> "AS_GLOBAL", m_flags |-> "AF_NONE"],
     cursorRightFast |->
        [m_name |-> "pcbnew.Control.cursorRightFast", m_scope |-> "AS_GLOBAL", m_flags |-> "AF_NONE"],
     cursorClick |->
        [m_name |-> "pcbnew.Control.cursorClick", m_scope |-> "AS_GLOBAL", m_flags |-> "AF_NONE"],
     cursorDblClick |->
        [m_name |-> "pcbnew.Control.cursorDblClick", m_scope |-> "AS_GLOBAL", m_flags |-> "AF_NONE"],
     panUp |->
        [m_name |-> "pcbnew.Control.panUp", m_scope |-> "AS_GLOBAL", m_flags |-> "AF_NONE"],
     panDown |->
        [m_name |-> "pcbnew.Control.panDown", m_scope |-> "AS_GLOBAL", m_flags |-> "AF_NONE"],
     panLeft |->
        [m_name |-> "pcbnew.Control.panLeft", m_scope |-> "AS_GLOBAL", m_flags |-> "AF_NONE"],
     panRight |->
        [m_name |-> "pcbnew.Control.panRight", m_scope |-> "AS_GLOBAL", m_flags |-> "AF_NONE"],
     selectionTool |->
        [m_name |-> "pcbnew.Control.selectionTool", m_scope |-> "AS_GLOBAL", m_flags |-> "AF_ACTIVATE"],
     zoomTool |->
        [m_name |-> "pcbnew.Control.zoomTool", m_scope |-> "AS_GLOBAL", m_flags |-> "AF_ACTIVATE"],
     pickerTool |->
        [m_name |-> "pcbnew.Picker", m_scope |-> "AS_GLOBAL", m_flags |-> "AF_ACTIVATE"],
     resetCoords |->
        [m_name |-> "pcbnew.Control.resetCoords", m_scope |-> "AS_GLOBAL", m_flags |-> "AF_NONE"],
     switchCursor |->
        [m_name |-> "pcbnew.Control.switchCursor", m_scope |-> "AS_GLOBAL", m_flags |-> "AF_NONE"],
     switchUnits |->
        [m_name |-> "pcbnew.Control.switchUnits", m_scope |-> "AS_GLOBAL", m_flags |-> "AF_NONE"],
     deleteItemCursor |->
        [m_name |-> "pcbnew.Control.deleteItemCursor", m_scope |-> "AS_GLOBAL", m_flags |-> "AF_NONE"],
     showHelp |->
        [m_name |-> "pcbnew.Control.showHelp", m_scope |-> "AS_GLOBAL", m_flags |-> "AF_NONE"],
     toBeDone |->
        [m_name |-> "pcbnew.Control.toBeDone", m_scope |-> "AS_GLOBAL", m_flags |-> "AF_NONE"],
     routerActivateSingle |->
        [m_name |-> "pcbnew.InteractiveRouter.SingleTrack", m_scope |-> "AS_GLOBAL", m_flags |-> "AF_ACTIVATE"],
     routerActivateDiffPair |->
        [m_name |-> "pcbnew.InteractiveRouter.DiffPair", m_scope |-> "AS_GLOBAL", m_flags |-> "AF_ACTIVATE"],
     routerActivateSettingsDialog |->
        [m_name |-> "pcbnew.InteractiveRouter.SettingsDialog", m_scope |-> "AS_GLOBAL", m_flags |-> "AF_ACTIVATE"],
     routerActivateDpDimensionsDialog |->
        [m_name |-> "pcbnew.InteractiveRouter.DpDimensionsDialog", m_scope |-> "AS_GLOBAL", m_flags |-> "AF_ACTIVATE"],
     routerActivateTuneSingleTrace |->
        [m_name |-> "pcbnew.LengthTuner.TuneSingleTrack", m_scope |-> "AS_GLOBAL", m_flags |-> "AF_ACTIVATE"],
     routerActivateTuneDiffPair |->
        [m_name |-> "pcbnew.LengthTuner.TuneDiffPair", m_scope |-> "AS_GLOBAL", m_flags |-> "AF_ACTIVATE"],
     routerActivateTuneDiffPairSkew |->
        [m_name |-> "pcbnew.LengthTuner.TuneDiffPairSkew", m_scope |-> "AS_GLOBAL", m_flags |-> "AF_ACTIVATE"],
     routerInlineDrag |->
        [m_name |-> "pcbnew.InteractiveRouter.InlineDrag", m_scope |-> "AS_GLOBAL", m_flags |-> "AF_NONE"],
     pointEditorAddCorner |->
        [m_name |-> "pcbnew.PointEditor.addCorner", m_scope |-> "AS_GLOBAL", m_flags |-> "AF_NONE"],
     pointEditorRemoveCorner |->
        [m_name |-> "pcbnew.PointEditor.removeCorner", m_scope |-> "AS_GLOBAL", m_flags |-> "AF_NONE"],
     alignTop |->
        [m_name |-> "pcbnew.Place.alignTop", m_scope |-> "AS_GLOBAL", m_flags |-> "AF_NONE"],
     alignBottom |->
        [m_name |-> "pcbnew.Place.alignBottom", m_scope |-> "AS_GLOBAL", m_flags |-> "AF_NONE"],
     alignLeft |->
        [m_name |-> "pcbnew.Place.alignLeft", m_scope |-> "AS_GLOBAL", m_flags |-> "AF_NONE"],
     alignRight |->
        [m_name |-> "pcbnew.Place.alignRight", m_scope |-> "AS_GLOBAL", m_flags |-> "AF_NONE"],
     distributeHorizontally |->
        [m_name |-> "pcbnew.Place.distributeHorizontally", m_scope |-> "AS_GLOBAL", m_flags |-> "AF_NONE"],
     distributeVertically |->
        [m_name |-> "pcbnew.Place.distributeVertically", m_scope |-> "AS_GLOBAL", m_flags |-> "AF_NONE"]]

ActionNames == DOMAIN PCB_ACTIONS

\* An empty boost::optional<TOOL_EVENT>
NoEvent == [category |-> "none"]

\* TOOL_ACTION::MakeEvent: the event that runs the action
MakeEvent(action) ==
    CASE action.m_flags = "AF_ACTIVATE" ->
            [category |-> "TC_COMMAND", action |-> "TA_ACTIVATE",
             commandStr |-> action.m_name, scope |-> action.m_scope]
      [] action.m_flags = "AF_NOTIFY" ->
            [category |-> "TC_MESSAGE", action |-> "TA_NONE",
             commandStr |-> action.m_name, scope |-> action.m_scope]
      [] OTHER ->
            [category |-> "TC_COMMAND", action |-> "TA_ACTION",
             commandStr |-> action.m_name, scope |-> action.m_scope]

\* The switch of PCB_ACTIONS::TranslateLegacyId: each case label with the
\* member of PCB_ACTIONS whose MakeEvent() its return statement calls.
LegacySwitch ==
    [ID_PCB_MODULE_BUTT |-> "placeModule",
     ID_TRACK_BUTT |-> "routerActivateSingle",
     ID_DIFF_PAIR_BUTT |-> "routerActivateDiffPair",
     ID_TUNE_SINGLE_TRACK_LEN_BUTT |-> "routerActivateTuneSingleTrace",
     ID_TUNE_DIFF_PAIR_LEN_BUTT |-> "routerActivateTuneDiffPair",
     ID_TUNE_DIFF_PAIR_SKEW_BUTT |-> "routerActivateTuneDiffPairSkew",
     ID_MENU_INTERACTIVE_ROUTER_SETTINGS |-> "routerActivateSettingsDialog",
     ID_MENU_DIFF_PAIR_DIMENSIONS |-> "routerActivateDpDimensionsDialog",
     ID_PCB_ZONES_BUTT |-> "drawZone",
     ID_PCB_KEEPOUT_AREA_BUTT |-> "drawKeepout",
     ID_PCB_ADD_LINE_BUTT |-> "drawLine",
     ID_MODEDIT_LINE_TOOL |-> "drawLine",
     ID_PCB_CIRCLE_BUTT |-> "drawCircle",
     ID_MODEDIT_CIRCLE_TOOL |-> "drawCircle",
     ID_PCB_ARC_BUTT |-> "drawArc",
     ID_MODEDIT_ARC_TOOL |-> "drawArc",
     ID_PCB_ADD_TEXT_BUTT |-> "placeText",
     ID_MODEDIT_TEXT_TOOL |-> "placeText",
     ID_PCB_DIMENSION_BUTT |-> "drawDimension",
     ID_PCB_MIRE_BUTT |-> "placeTarget",
     ID_MODEDIT_PAD_TOOL |-> "placePad",
     ID_GEN_IMPORT_DXF_FILE |-> "placeDXF",
     ID_MODEDIT_ANCHOR_TOOL |-> "setAnchor",
     ID_PCB_PLACE_GRID_COORD_BUTT |-> "gridSetOrigin",
     ID_MODEDIT_PLACE_GRID_COORD |-> "gridSetOrigin",
     ID_ZOOM_IN |-> "zoomInCenter",
     ID_ZOOM_OUT |-> "zoomOutCenter",
     ID_ZOOM_PAGE |-> "zoomFitScreen",
     ID_TB_OPTIONS_SHOW_TRACKS_SKETCH |-> "trackDisplayMode",
     ID_TB_OPTIONS_SHOW_PADS_SKETCH |-> "padDisplayMode",
     ID_TB_OPTIONS_SHOW_VIAS_SKETCH |-> "viaDisplayMode",
     ID_TB_OPTIONS_SHOW_ZONES |-> "zoneDisplayEnable",
     ID_TB_OPTIONS_SHOW_ZONES_DISABLE |-> "zoneDisplayDisable",
     ID_TB_OPTIONS_SHOW_ZONES_OUTLINES_ONLY |-> "zoneDisplayOutlines",
     ID_TB_OPTIONS_SHOW_MODULE_EDGE_SKETCH |-> "moduleEdgeOutlines",
     ID_TB_OPTIONS_SHOW_MODULE_TEXT_SKETCH |-> "moduleTextOutlines",
     ID_TB_OPTIONS_SHOW_HIGH_CONTRAST_MODE |-> "highContrastMode",
     ID_FIND_ITEMS |-> "find",
     ID_POPUP_PCB_GET_AND_MOVE_MODULE_REQUEST |-> "findMove",
     ID_NO_TOOL_SELECTED |-> "selectionTool",
     ID_ZOOM_SELECTION |-> "zoomTool",
     ID_PCB_DELETE_ITEM_BUTT |-> "deleteItemCursor",
     ID_MODEDIT_DELETE_TOOL |-> "deleteItemCursor",
     ID_PCB_PLACE_OFFSET_COORD_BUTT |-> "drillOrigin",
     ID_PCB_HIGHLIGHT_BUTT |-> "highlightNetCursor",
     ID_APPEND_FILE |-> "appendBoard",
     ID_PCB_SHOW_1_RATSNEST_BUTT |-> "toBeDone"]

LegacyIds == DOMAIN LegacySwitch

\* Values of aId that no case label names.
OtherIds == {"wxID_ANY", "ID_UNLISTED_1", "ID_UNLISTED_2"}

Ids == LegacyIds \cup OtherIds

\* TranslateLegacyId whose default returns the event of the placeholder
\* action instead of an empty optional.
TranslateLegacyId_DefaultToBeDone(aId) ==
    IF aId \in LegacyIds
    THEN MakeEvent(PCB_ACTIONS[LegacySwitch[aId]])
    ELSE MakeEvent(PCB_ACTIONS.toBeDone)

\* PCB_ACTIONS::TranslateLegacyId
TranslateLegacyId(aId) ==
    IF aId \in LegacyIds
    THEN MakeEvent(PCB_ACTIONS[LegacySwitch[aId]])
    ELSE NoEvent

\* ------------------------------------------------------------------------
\* State: one matcher object under use by a caller.
\*   obj                 the live object (NoObject before construction)
\*   op, arg, ret        the last call made on it, its argument and result
\*   aMatchersTriggered,
\*   aPosition           the caller's variables passed by reference to
\*                       EDA_COMBINED_MATCHER::Find
\*   entry               the values aMatchersTriggered and aPosition held when
\*                       EDA_COMBINED_MATCHER::Find was last entered
\*   given               <<p>> when p is the pattern most recently given to
\*                       SetPattern or to the combined matcher's constructor,
\*                       <<>> before that
\*   flipped             TRUE when the last SetPattern call on the object
\*                       returned the opposite of the SetPattern call before
\*                       it on the same object
\*   aId, event          the argument and the result of the last call of
\*                       PCB_ACTIONS::TranslateLegacyId ("none" before it)
\*   prevId, prevEvent   those of the call before it
\*   start, foundAt      the match start wxRegEx::GetMatch reported in a long
\*                       candidate, and what EDA_PATTERN_MATCH_REGEX::Find
\*                       returned for it
\* ------------------------------------------------------------------------
VARIABLES obj, op, arg, ret, aMatchersTriggered, aPosition, entry, given, flipped,
          aId, event, prevId, prevEvent, start, foundAt

matcherVars ==
    <<obj, op, arg, ret, aMatchersTriggered, aPosition, entry, given, flipped>>

legacyVars == <<aId, event, prevId, prevEvent>>

clampVars == <<start, foundAt>>

vars ==
    <<obj, op, arg, ret, aMatchersTriggered, aPosition, entry, given, flipped,
      aId, event, prevId, prevEvent, start, foundAt>>

NoObject == [kind |-> "none"]

InitMatcher ==
    /\ obj = NoObject
    /\ op = "none"
    /\ arg = <<>>
    /\ ret = FALSE
    /\ aMatchersTriggered = 0
    /\ aPosition = EDA_PATTERN_NOT_FOUND
    /\ entry = <<0, EDA_PATTERN_NOT_FOUND>>
    /\ given = <<>>
    /\ flipped = FALSE

InitLegacy ==
    /\ aId = "none"
    /\ event = NoEvent
    /\ prevId = "none"
    /\ prevEvent = NoEvent

InitClamp ==
    /\ start = SizeT(0)
    /\ foundAt = 0

Init == InitMatcher /\ InitLegacy /\ InitClamp

\* std::make_unique<EDA_PATTERN_MATCH_...>()
ConstructMatcher(kind) ==
    /\ obj.kind = "none"
    /\ obj' = NewMatcher(kind)
    /\ op' = "new"
    /\ arg' = <<>>
    /\ ret' = FALSE
    /\ UNCHANGED <<aMatchersTriggered, aPosition, entry, given, flipped, legacyVars, clampVars>>

\* EDA_COMBINED_MATCHER matcher( aPattern )
ConstructCombined(aPattern) ==
    /\ obj.kind = "none"
    /\ obj' = CombinedMatcher(aPattern)
    /\ op' = "new"
    /\ arg' = aPattern
    /\ ret' = FALSE
    /\ given' = <<aPattern>>
    /\ UNCHANGED <<aMatchersTriggered, aPosition, entry, flipped, legacyVars, clampVars>>

\* matcher->SetPattern( aPattern ) on a REGEX, WILDCARD or SUBSTR object
CallSetPattern(aPattern) ==
    /\ obj.kind \in MatcherKinds
    /\ LET r == SetPattern(obj, aPattern)
       IN  /\ obj' = r.obj
           /\ ret' = r.ret
           /\ flipped' = /\ given # <<>>
                         /\ r.ret # SetPattern(NewMatcher(obj.kind), given[1]).ret
    /\ op' = "SetPattern"
    /\ arg' = aPattern
    /\ given' = <<aPattern>>
    /\ UNCHANGED <<aMatchersTriggered, aPosition, entry, legacyVars, clampVars>>

\* matcher->Find( aCandidate ) on a REGEX, WILDCARD or SUBSTR object
CallFind(aCandidate) ==
    /\ obj.kind \in MatcherKinds
    /\ ret' = Find(obj, aCandidate)
    /\ op' = "Find"
    /\ arg' = aCandidate
    /\ UNCHANGED <<obj, aMatchersTriggered, aPosition, entry, given, flipped, legacyVars, clampVars>>

\* matcher.Find( aTerm, aMatchersTriggered, aPosition ) on a combined matcher
CallCombinedFind(aTerm) ==
    /\ obj.kind = "COMBINED"
    /\ LET r == CombinedFind(obj, aTerm, aMatchersTriggered, aPosition)
       IN  /\ ret' = r.ret
           /\ aMatchersTriggered' = r.aMatchersTriggered
           /\ aPosition' = r.aPosition
    /\ op' = "Find"
    /\ arg' = aTerm
    /\ entry' = <<aMatchersTriggered, aPosition>>
    /\ UNCHANGED <<obj, given, flipped, legacyVars, clampVars>>

\* GetPattern() on any of the four classes
CallGetPattern ==
    /\ obj.kind # "none"
    /\ ret' = IF obj.kind = "COMBINED" THEN CombinedGetPattern(obj) ELSE GetPattern(obj)
    /\ op' = "GetPattern"
    /\ arg' = <<>>
    /\ UNCHANGED <<obj, aMatchersTriggered, aPosition, entry, given, flipped, legacyVars, clampVars>>

\* The object and the caller's variables go out of scope.
Destroy ==
    /\ obj.kind # "none"
    /\ obj' = NoObject
    /\ op' = "none"
    /\ arg' = <<>>
    /\ ret' = FALSE
    /\ aMatchersTriggered' = 0
    /\ aPosition' = EDA_PATTERN_NOT_FOUND
    /\ entry' = <<0, EDA_PATTERN_NOT_FOUND>>
    /\ given' = <<>>
    /\ flipped' = FALSE
    /\ UNCHANGED <<legacyVars, clampVars>>

Next ==
    \/ \E kind \in MatcherKinds : ConstructMatcher(kind)
    \/ \E aPattern \in Patterns : ConstructCombined(aPattern)
    \/ \E aPattern \in Patterns : CallSetPattern(aPattern)
    \/ \E aCandidate \in Terms : CallFind(aCandidate)
    \/ \E aTerm \in Terms : CallCombinedFind(aTerm)
    \/ CallGetPattern
    \/ Destroy

Spec == Init /\ [][Next]_vars

\* PCB_ACTIONS::TranslateLegacyId( id ), called for a legacy command event
CallTranslateLegacyId(id) ==
    /\ event' = TranslateLegacyId(id)
    /\ aId' = id
    /\ prevId' = aId
    /\ prevEvent' = event
    /\ UNCHANGED <<matcherVars, clampVars>>

NextLegacy == \E id \in Ids : CallTranslateLegacyId(id)

SpecLegacy == Init /\ [][NextLegacy]_vars

\* The size_t values a match start is drawn from: those near 0, those near
\* INT_MAX in their low 31 bits, with and without bit 31 and the bits above.
StartValues ==
    [upper : 0..MaxUpper, bit31 : {0, 1},
     low : (0..MaxLow) \cup {INT_MAX - k : k \in 0..MaxLow}]

\* EDA_PATTERN_MATCH_REGEX::Find on a candidate in which the valid
\* expression matches, GetMatch reporting the start s
CallFindMatchAt(s) ==
    /\ start' = s
    /\ foundAt' = MatchStartToInt(s)
    /\ UNCHANGED <<matcherVars, legacyVars>>

NextClamp == \E s \in StartValues : CallFindMatchAt(s)

SpecClamp == Init /\ [][NextClamp]_vars

\* ------------------------------------------------------------------------
\* Properties of the combined matcher
\* ------------------------------------------------------------------------
\* A matcher of the given kind after SetPattern( aPattern ): [obj, ret]
Compiled(kind, aPattern) == SetPattern(NewMatcher(kind), aPattern)

\* The kinds whose SetPattern accepts the pattern given to the constructor
CompiledKinds == {kind \in MatcherKinds : Compiled(kind, given[1]).ret}

\* Where a matcher of the kind, set to the constructor's pattern, finds it in t
PositionOf(kind, t) == Find(Compiled(kind, given[1]).obj, t)

KindRank(kind) ==
    CASE kind = "REGEX" -> 1 [] kind = "WILDCARD" -> 2 [] OTHER -> 3

AfterCombinedFind == obj.kind = "COMBINED" /\ op = "Find"

\* C1: after EDA_COMBINED_MATCHER::Find, aPosition is the minimum of the
\* positions found by the matchers that compiled the pattern (regex,
\* wildcard, substring), and EDA_PATTERN_NOT_FOUND when none of them finds it.
C1_PositionIsMinimum ==
    AfterCombinedFind =>
        LET found == {PositionOf(kind, arg) : kind \in CompiledKinds}
                         \ {EDA_PATTERN_NOT_FOUND}
        IN  aPosition = IF found = {} THEN EDA_PATTERN_NOT_FOUND ELSE SetMin(found)

\* A Find in which a later matcher of the list lowers the position an
\* earlier one has set.
C1_Witness ==
    /\ AfterCombinedFind
    /\ \E k1, k2 \in CompiledKinds :
          /\ KindRank(k1) < KindRank(k2)
          /\ PositionOf(k2, arg) # EDA_PATTERN_NOT_FOUND
          /\ PositionOf(k2, arg) < PositionOf(k1, arg)
          /\ aPosition = PositionOf(k2, arg)

\* C2: a pattern that is no valid regular expression (or whose wildcard
\* translation does not compile) still yields a constructed combined matcher;
\* its list holds exactly the variants whose SetPattern returned true, each
\* with its expression compiled, and Find counts matches of those only.
C2_InvalidVariantExcluded ==
    obj.kind = "COMBINED" =>
        /\ \A kind \in MatcherKinds :
              (\E k \in 1..Len(obj.m_matchers) : obj.m_matchers[k].kind = kind)
                  <=> kind \in CompiledKinds
        /\ \A k \in 1..Len(obj.m_matchers) :
              obj.m_matchers[k] = Compiled(obj.m_matchers[k].kind, given[1]).obj
        /\ op = "Find" =>
              aMatchersTriggered = Cardinality(
                  {kind \in CompiledKinds : PositionOf(kind, arg) # EDA_PATTERN_NOT_FOUND})

\* A combined matcher built from an invalid regular expression, whose Find
\* succeeds through the other variants.
C2_Witness ==
    /\ AfterCombinedFind
    /\ "REGEX" \notin CompiledKinds
    /\ ret = TRUE
    /\ aMatchersTriggered = 2

\* C3: EDA_PATTERN_MATCH_SUBSTR::SetPattern returns true for every pattern,
\* and the list of a combined matcher holds 1 to 3 matchers in the order
\* regex, wildcard, substring, the substring matcher being the last.
C3_SubstrAlwaysLast ==
    /\ (obj.kind = "SUBSTR" /\ op = "SetPattern") => ret = TRUE
    /\ obj.kind = "COMBINED" =>
          LET n == Len(obj.m_matchers)
          IN  /\ n \in 1..3
              /\ \A i, j \in 1..n :
                    i < j => KindRank(obj.m_matchers[i].kind) < KindRank(obj.m_matchers[j].kind)
              /\ obj.m_matchers[n].kind = "SUBSTR"

\* A combined matcher for the empty pattern, and one whose list lacks the
\* regex matcher.
C3_Witness ==
    /\ obj.kind = "COMBINED"
    /\ \/ given = <<<<>>>> /\ Len(obj.m_matchers) = 3
       \/ Len(obj.m_matchers) = 2 /\ obj.m_matchers[1].kind = "WILDCARD"
    /\ op = "Find"
    /\ arg = <<>>

\* C4: after EDA_COMBINED_MATCHER::Find, aMatchersTriggered is the number of
\* matchers of the list whose Find on the term is not EDA_PATTERN_NOT_FOUND,
\* so it lies between 0 and the length of the list, which is at most 3.
C4_TriggeredIsCount ==
    AfterCombinedFind =>
        LET n == Len(obj.m_matchers)
            hits == {k \in 1..n : Find(obj.m_matchers[k], arg) # EDA_PATTERN_NOT_FOUND}
        IN  /\ aMatchersTriggered = Cardinality(hits)
            /\ aMatchersTriggered \in 0..n
            /\ n <= 3

\* A Find in which two matchers find the term at different positions, the
\* earlier one at the higher position, and a third does not find it.
C4_Witness ==
    /\ AfterCombinedFind
    /\ Len(obj.m_matchers) = 3
    /\ aMatchersTriggered = 2
    /\ \E i, j \in 1..3 :
          /\ i < j
          /\ Find(obj.m_matchers[j], arg) # EDA_PATTERN_NOT_FOUND
          /\ Find(obj.m_matchers[i], arg) > Find(obj.m_matchers[j], arg)

\* C5: the outputs of EDA_COMBINED_MATCHER::Find agree: it returns true iff
\* aMatchersTriggered >= 1 iff aPosition # EDA_PATTERN_NOT_FOUND, and when it
\* returns false aMatchersTriggered is 0 and aPosition EDA_PATTERN_NOT_FOUND.
C5_OutputsAgree ==
    AfterCombinedFind =>
        /\ (ret = TRUE) <=> (aMatchersTriggered >= 1)
        /\ (ret = TRUE) <=> (aPosition # EDA_PATTERN_NOT_FOUND)
        /\ (ret = FALSE) => (aMatchersTriggered = 0 /\ aPosition = EDA_PATTERN_NOT_FOUND)

\* A Find on a non-empty term in which all three matchers are asked and none
\* finds the term.
C5_Witness ==
    /\ AfterCombinedFind
    /\ Len(obj.m_matchers) = 3
    /\ ret = FALSE
    /\ aMatchersTriggered = 0
    /\ arg # <<>>

\* ------------------------------------------------------------------------
\* Properties of the single matchers and of the legacy-ID translation
\* ------------------------------------------------------------------------
\* The characters the wildcard translation is said to escape
EscapedChars == {".", "+", "^", "$", "{", "}", "(", ")", "|", "[", "]", "/", "\\"}

\* What one character of a glob pattern is said to become
Translated(c) ==
    CASE c = "?"             -> <<".">>
      [] c = "*"             -> <<".", "*">>
      [] c \in EscapedChars  -> <<"\\", c>>
      [] OTHER               -> <<c>>

RECURSIVE TranslatedAll(_)
TranslatedAll(p) ==
    IF p = <<>> THEN <<>> ELSE Translated(Head(p)) \o TranslatedAll(Tail(p))

\* The glob pattern p from its k-th character on matches t from offset i on,
\* up to some offset: '?' is any one character, '*' any run of characters,
\* every other character itself.
RECURSIVE GlobMatches(_, _, _, _)
GlobMatches(p, k, t, i) ==
    IF k > Len(p)
    THEN TRUE
    ELSE CASE p[k] = "*" -> \E j \in i..Len(t) : GlobMatches(p, k + 1, t, j)
           [] p[k] = "?" -> i < Len(t) /\ GlobMatches(p, k + 1, t, i + 1)
           [] OTHER      -> i < Len(t) /\ t[i + 1] = p[k] /\ GlobMatches(p, k + 1, t, i + 1)

\* The offsets of t at which p occurs literally
Occurrences(t, p) ==
    {i \in 0..Len(t) : i + Len(p) <= Len(t) /\ SubSeq(t, i + 1, i + Len(p)) = p}

\* C6: EDA_PATTERN_MATCH_WILDCARD::SetPattern translates the pattern character
\* by character, in order: '?' to '.', '*' to '.*', each of . + ^ $ { } ( ) |
\* [ ] / \ to a backslash and itself, any other character to itself; the
\* expression is at most twice as long as the pattern, and it matches as the
\* glob does, every character but '?' and '*' matching only itself.
C6_WildcardTranslation ==
    (obj.kind = "WILDCARD" /\ given # <<>>) =>
        LET p == given[1]
        IN  /\ obj.m_pattern = TranslatedAll(p)
            /\ Len(obj.m_pattern) <= 2 * Len(p)
            /\ op = "Find" =>
                  LET starts == {i \in 0..Len(arg) : GlobMatches(p, 1, arg, i)}
                  IN  ret = IF starts = {} THEN EDA_PATTERN_NOT_FOUND ELSE SetMin(starts)

\* A wildcard matcher whose pattern holds an escaped character and a '*',
\* found in a term that does not hold the pattern literally.
C6_Witness ==
    /\ obj.kind = "WILDCARD"
    /\ op = "Find"
    /\ given = << <<"\\", "*">> >>
    /\ obj.m_pattern = <<"\\", "\\", ".", "*">>
    /\ arg = <<"\\", "a", "*">>
    /\ ret = 0

\* C7: GetPattern returns the string given to the most recent SetPattern (to
\* the constructor, for the combined matcher), whether or not that
\* SetPattern returned true; the wildcard matcher returns the glob pattern,
\* not its translation.
C7_GetPatternReturnsGiven ==
    (op = "GetPattern" /\ given # <<>>) => ret = given[1]

\* GetPattern on a regex matcher whose last SetPattern failed to compile a
\* non-empty pattern.
C7_Witness ==
    /\ op = "GetPattern"
    /\ obj.kind = "REGEX"
    /\ ~obj.m_regex.ok
    /\ given # <<>>
    /\ Len(given[1]) = MaxPatLen
    /\ ret = given[1]

\* C8: PCB_ACTIONS::TranslateLegacyId is a flat lookup: an ID of the switch
\* yields the event of exactly one action, any other ID an empty optional,
\* and the same ID yields the same result in two calls in a row.
C8_FlatLookup ==
    aId # "none" =>
        /\ aId \in LegacyIds =>
              /\ event # NoEvent
              /\ Cardinality({n \in ActionNames : MakeEvent(PCB_ACTIONS[n]) = event}) = 1
        /\ aId \notin LegacyIds => event = NoEvent
        /\ aId = prevId => event = prevEvent

\* A listed ID translated right after an unlisted one.
C8_Witness ==
    /\ aId = "ID_MODEDIT_LINE_TOOL"
    /\ event = MakeEvent(PCB_ACTIONS.drawLine)
    /\ prevId = "wxID_ANY"
    /\ prevEvent = NoEvent

\* C9: when the term holds the pattern as a literal substring,
\* EDA_COMBINED_MATCHER::Find returns true with aMatchersTriggered >= 1 and
\* aPosition at most the offset of the first literal occurrence.
C9_LiteralOccurrenceFound ==
    (AfterCombinedFind /\ Occurrences(arg, given[1]) # {}) =>
        /\ ret = TRUE
        /\ aMatchersTriggered >= 1
        /\ aPosition # EDA_PATTERN_NOT_FOUND
        /\ aPosition <= SetMin(Occurrences(arg, given[1]))

\* A term that holds the pattern literally at offset 0 while the regular
\* expression matches it only further on.
C9_Witness ==
    /\ AfterCombinedFind
    /\ Occurrences(arg, given[1]) # {}
    /\ "REGEX" \in CompiledKinds
    /\ PositionOf("REGEX", arg) > SetMin(Occurrences(arg, given[1]))
    /\ aPosition = 0

\* C10: EDA_PATTERN_MATCH_SUBSTR::Find returns the offset of the first
\* occurrence of the stored pattern in the candidate, EDA_PATTERN_NOT_FOUND
\* when there is none, and 0 for the empty pattern whatever the candidate.
C10_SubstrFindFirst ==
    (obj.kind = "SUBSTR" /\ op = "Find") =>
        LET occ == Occurrences(arg, obj.m_pattern)
        IN  /\ occ = {} => ret = EDA_PATTERN_NOT_FOUND
            /\ occ # {} => (ret \in occ /\ \A i \in occ : ret <= i)
            /\ obj.m_pattern = <<>> => ret = 0
            /\ given # <<>> => obj.m_pattern = given[1]

\* A candidate that holds the pattern twice, first at an offset above 0.
C10_Witness ==
    /\ obj.kind = "SUBSTR"
    /\ op = "Find"
    /\ obj.m_pattern # <<>>
    /\ Cardinality(Occurrences(arg, obj.m_pattern)) = 2
    /\ ret = 1


\* C11: on an EDA_PATTERN_MATCH_REGEX used on its own whose last SetPattern
\* returned false, Find searches the candidate for the stored pattern text as
\* a literal substring and returns its first offset or EDA_PATTERN_NOT_FOUND.
C11_InvalidRegexFallsBack ==
    (obj.kind = "REGEX" /\ op = "Find" /\ given # <<>>
        /\ ~Compiled("REGEX", given[1]).ret) =>
        LET occ == Occurrences(arg, given[1])
        IN  ret = IF occ = {} THEN EDA_PATTERN_NOT_FOUND ELSE SetMin(occ)

\* A regex matcher whose pattern did not compile finds the pattern text in
\* the candidate at an offset above 0.
C11_Witness ==
    /\ obj.kind = "REGEX"
    /\ op = "Find"
    /\ given # <<>>
    /\ ~Compiled("REGEX", given[1]).ret
    /\ ~obj.m_regex.ok
    /\ ret = 1


\* C12: after any sequence of SetPattern calls on one regex or substring
\* matcher, the object is as after its last SetPattern alone and Find answers
\* for the last pattern only: an expression compiled earlier is not used once
\* a later pattern failed to compile, and an earlier failure does not affect
\* a later valid pattern.
C12_LastPatternOnly ==
    (obj.kind \in {"REGEX", "SUBSTR"} /\ given # <<>>) =>
        LET fresh == Compiled(obj.kind, given[1])
        IN  /\ obj = fresh.obj
            /\ op = "SetPattern" => ret = fresh.ret
            /\ op = "Find" => ret = Find(fresh.obj, arg)

\* A regex matcher that compiled a pattern, then failed to compile the next
\* one, and finds the text of that one in the candidate.
C12_Witness ==
    /\ obj.kind = "REGEX"
    /\ op = "Find"
    /\ flipped
    /\ ~Compiled("REGEX", given[1]).ret
    /\ ~obj.m_regex.ok
    /\ ret = 1


\* Values an int variable of the caller may hold when Find is entered
EntryValues == {EDA_PATTERN_NOT_FOUND, 0, 2, INT_MAX}

\* C14: EDA_COMBINED_MATCHER::Find overwrites both output parameters before
\* it searches: its result and both outputs are the same whatever values
\* aMatchersTriggered and aPosition hold on entry.
C14_OutputsIgnoreEntryValues ==
    AfterCombinedFind =>
        \A inTriggered, inPosition \in EntryValues :
            CombinedFind(obj, arg, inTriggered, inPosition)
                = [ret |-> ret, aMatchersTriggered |-> aMatchersTriggered,
                   aPosition |-> aPosition]

\* A Find that finds nothing, entered with the count 3 and the position 0
\* that a Find on another term has left.
C14_Witness ==
    /\ AfterCombinedFind
    /\ entry = <<3, 0>>
    /\ ret = FALSE
    /\ aMatchersTriggered = 0
    /\ aPosition = EDA_PATTERN_NOT_FOUND


\* C13: when the valid expression matches, EDA_PATTERN_MATCH_REGEX::Find
\* returns the match start clamped to INT_MAX: the start itself when it is at
\* most INT_MAX, INT_MAX otherwise, so a value in 0..INT_MAX and never
\* EDA_PATTERN_NOT_FOUND or another negative value.
C13_MatchStartClamped ==
    /\ foundAt >= 0
    /\ foundAt <= INT_MAX
    /\ foundAt # EDA_PATTERN_NOT_FOUND
    /\ (start.upper = 0 /\ start.bit31 = 0) => foundAt = start.low
    /\ (start.upper > 0 \/ start.bit31 = 1) => foundAt = INT_MAX

\* A match start of 2^32 - 1, whose low 32 bits read as an int are -1.
C13_Witness ==
    /\ start = [upper |-> 0, bit31 |-> 1, low |-> INT_MAX]
    /\ foundAt = INT_MAX

====
